---------------------------- MODULE Spec2Model ----------------------------
(***************************************************************************)
(* Media capture pipeline of the Gemini realtime demo client:             *)
(* LiveVideoManager, LiveScreenManager and LiveAudioInputManager and the  *)
(* page script that drives them.  JavaScript is single threaded: every    *)
(* action below is one run-to-completion piece of code (an event handler  *)
(* up to its first await, the continuation of an await, one animation     *)
(* frame).  An asynchronous acquisition is a record in `pending` between  *)
(* the call and the moment the platform settles it.                       *)
(***************************************************************************)
EXTENDS Naturals, Integers, Sequences, FiniteSets, TLC

\* ------------------------------------------------------------ bounds ----
MaxCalls == 2      \* acquisitions requested in one run of the three managers together
MaxVideoCalls == 3 \* acquisitions requested in one run of the video managers alone
MaxTicks == 3      \* animation frames driven in one run
MaxLoopCalls == 2    \* acquisitions requested in one run of the loop specification
MaxSamplerCalls == 1 \* acquisitions requested in one run of the sampling loops
MaxAudioCalls == 1   \* acquisitions requested in one run of the microphone manager alone
MaxChunks == 3       \* audioprocess events fired in one run
MaxLen == 2          \* characters in a value typed into the form field
MaxMicCalls == 2     \* microphone acquisitions requested in one run of the page's audio handlers

\* ------------------------------------------------------------- names ----
Video  == "video"      \* liveVideoManager      (LiveVideoManager)
Screen == "screen"     \* liveScreenManager     (LiveScreenManager)
Audio  == "audio"      \* liveAudioInputManager (LiveAudioInputManager)

Managers      == {Video, Screen, Audio}
VideoManagers == {Video, Screen}

NoDevice  == "default"           \* deviceId = null
DeviceIds == {"idA", "idB"}
Devices   == {NoDevice, "idA"}     \* deviceId argument of a start: absent, or an id

Errors  == {"NotAllowedError", "NotFoundError"}
NoError == "none"

\* Characters a user can type into a form field: a letter and three of the
\* characters encodeURIComponent escapes.  A string is a tuple of characters.
Chars  == {"a", " ", ";", "%"}
Values == UNION {[1..n -> Chars] : n \in 0..MaxLen}
Null     == <<"null">>        \* JavaScript null, where a string is expected
URIError == <<"URIError">>    \* decodeURIComponent raised

\* CookieJar.init("token"): the element id and the cookie name made from it
ElementId  == "token"
CookieName == <<"CookieJar_", ElementId>>

\* A dimension the video element reports: 0 until the stream has a resolution.
Dim == {0, 640}

VARIABLES
    streams,      \* MediaStreams the platform has handed out, by id (1..)
    stream,       \* this.stream of each manager (0 = null)
    callback,     \* onNewFrame / onNewAudioRecordingChunk registered?
    srcObject,    \* videoElement.srcObject (0 = null), shared by both video managers
    videoWidth,   \* videoElement.videoWidth
    videoHeight,  \* videoElement.videoHeight
    canvas,       \* <<canvasElement.width, canvasElement.height>>
    loops,        \* per video manager: captureFrame closures with a pending requestAnimationFrame
    graphs,       \* audio graphs built by processAudioStream: the stream each one taps
    pending,      \* acquisitions requested and not yet settled by the platform
    ncalls,       \* number of acquisitions requested so far
    settled,      \* how the most recently settled acquisition call ended
    tick,         \* what the most recent animation frame saw and did
    delivered,    \* per video manager: frames handed to onNewFrame so far
    limit,        \* acquisitions this run may request (set once, never changed)
    immStopped,   \* start calls that were followed immediately by a stop of the same manager
    ev,           \* the last operation that ran
    appStatus,    \* the status indicator setAppStatus left visible
    dialogMessage,\* what showDialogWithMessage last put in the dialog ("none": never shown)
    micBtnHidden, \* micBtn.hidden
    micOffBtnHidden, \* micOffBtn.hidden
    session,      \* the connection of geminiLiveApi: "closed", "opening" or "open"
    released,     \* -1, or, when disconnectBtnClick ran and no microphone was requested
                  \* since: how many buffers had been passed to sendAudioMessage by then
    nchunks,      \* audioprocess events fired so far
    heard,        \* channel-0 buffers of the events fired while a callback was registered
    sentAudio,    \* buffers passed to onNewAudioRecordingChunk, in call order
    jar,          \* the cookies of the document, by name (Null: no such cookie)
    field,        \* element.value of the form field
    listening,    \* whether CookieJar.init has attached its input listener
    entered,      \* the value the user typed last (Null: nothing typed since the cookie was last deleted)
    scriptHttpOnly \* whether the platform stores an HttpOnly cookie written by script

PageVars   == <<appStatus, dialogMessage, micBtnHidden, micOffBtnHidden, session, released>>
ChunkVars  == <<nchunks, heard, sentAudio>>
CookieVars == <<jar, field, listening, entered, scriptHttpOnly>>
Aside      == <<PageVars, ChunkVars, CookieVars>>

vars == <<streams, stream, callback, srcObject, videoWidth, videoHeight, canvas,
          loops, graphs, pending, ncalls, settled, tick, delivered, limit, immStopped, ev,
          Aside>>

\* Record of the operation that ran last.  again: a stop that directly follows a
\* stop of the same manager; threw: the error a synchronous method raised.
Ev(op, m, call) == [op |-> op, mgr |-> m, call |-> call, again |-> FALSE, threw |-> NoError]

\* --------------------------------------------------------- constructors --
Constraints(m, deviceId) ==
    IF m = Screen THEN [video |-> "display"]
    ELSE IF m = Video THEN [video |-> IF deviceId # NoDevice THEN deviceId ELSE "undefined"]
    ELSE [audio |-> IF deviceId # NoDevice THEN deviceId ELSE "undefined"]

NoSettled == [call |-> 0, mgr |-> "none", op |-> "none", platform |-> NoError, thrown |-> NoError]

\* n: animation frames driven so far; skips: how many frames in a row, right
\* before the last one, found a zero dimension; dry[m]: how many frames in a
\* row, the last one included, ran loops of m with no callback registered.
NoTick == [n |-> 0, skips |-> 0, w |-> 0, h |-> 0,
           cb   |-> [m \in VideoManagers |-> FALSE],
           runs |-> [m \in VideoManagers |-> 0],
           sent |-> [m \in VideoManagers |-> 0],
           dry  |-> [m \in VideoManagers |-> 0],
           raised |-> FALSE]

\* The managers and elements before anything has run; no audioprocess event
\* has fired.
InitMedia ==
    /\ streams = << >>
    /\ stream = [m \in Managers |-> 0]
    /\ srcObject = 0
    /\ videoWidth = 0
    /\ videoHeight = 0
    /\ canvas = <<0, 0>>
    /\ loops = [m \in VideoManagers |-> 0]
    /\ graphs = << >>
    /\ pending = {}
    /\ ncalls = 0
    /\ settled = NoSettled
    /\ tick = NoTick
    /\ delivered = [m \in VideoManagers |-> 0]
    /\ immStopped = {}
    /\ ev = Ev("init", "none", 0)
    /\ nchunks = 0
    /\ heard = << >>
    /\ sentAudio = << >>

\* A document without cookies and the form field as the markup leaves it.
InitJar ==
    /\ jar = [n \in {CookieName} |-> Null]
    /\ field = << >>
    /\ listening = FALSE
    /\ entered = Null

\* The page before any handler has run.
InitPage ==
    /\ appStatus = "disconnected"
    /\ dialogMessage = NoError
    /\ micBtnHidden = FALSE
    /\ micOffBtnHidden = FALSE
    /\ session = "closed"
    /\ released = -1

InitManagers == InitMedia /\ InitPage /\ InitJar /\ scriptHttpOnly = FALSE

\* State after the three constructors: no callback registered.
Init ==
    /\ InitManagers
    /\ callback = [m \in Managers |-> FALSE]
    /\ limit = MaxCalls

\* ------------------------------------------------------------ helpers ---
StreamIds == DOMAIN streams
LiveStreams == {s \in StreamIds : streams[s].live}
LiveOf(m) == {s \in LiveStreams : streams[s].mgr = m}


StopVars  == <<streams, stream, srcObject, videoWidth, videoHeight>>
ReqVars   == <<pending, ncalls, limit>>
LoopVars  == <<canvas, loops, graphs, tick, delivered>>

\* stream.getTracks().forEach(track => track.stop()) on the stream manager m holds
StopTracks(m) ==
    [s \in StreamIds |-> IF s = stream[m] THEN [streams[s] EXCEPT !.live = FALSE]
                                          ELSE streams[s]]

\* this.stream.getTracks() raises a TypeError when this.stream is null.
GetTracksError(s) == IF s = 0 THEN "TypeError" ELSE NoError

\* What stopWebcam / stopCapture / disconnectMicrophone raise: getTracks is
\* only reached inside `if (this.stream)`.
StopThrows(m) == IF stream[m] # 0 THEN GetTracksError(stream[m]) ELSE NoError

StopEv(m) == [op |-> "stop", mgr |-> m, call |-> 0,
              again |-> (ev.op = "stop" /\ ev.mgr = m), threw |-> StopThrows(m)]

\* Instrumentation: a stop that is the very next operation after a start of the
\* same manager (or after that start's fulfilment) marks the start call.
MarkImmediate(m) ==
    immStopped' =
        IF ev.mgr = m /\ (ev.op = "start" \/ (ev.op = "fulfil" /\ settled.op = "start"))
        THEN immStopped \cup {ev.call}
        ELSE immStopped

\* navigator.mediaDevices.getUserMedia / getDisplayMedia is called and the
\* async function suspends at its await.
Request(m, op, deviceId) ==
    /\ ncalls < limit
    /\ ncalls' = ncalls + 1
    /\ limit' = limit
    /\ pending' = pending \cup {[id |-> ncalls + 1, mgr |-> m, op |-> op,
                                 constraints |-> Constraints(m, deviceId),
                                 liveAt |-> LiveStreams]}
    /\ ev' = Ev(op, m, ncalls + 1)

\* The stream the platform hands out when it fulfils acquisition c.
NewStream(c) ==
    [mgr |-> c.mgr, call |-> c.id, op |-> c.op,
     liveAt |-> c.liveAt, live |-> TRUE]

\* captureFrame as it would be with only the width tested before sampling.
captureFrame_WidthOnly(w, h, cb, cv) ==
    IF w > 0
    THEN [canvas |-> <<w, h>>, sent |-> IF cb THEN 1 ELSE 0, raised |-> FALSE, resched |-> TRUE]
    ELSE [canvas |-> cv, sent |-> 0, raised |-> FALSE, resched |-> TRUE]

\* captureFrame as it would be with this.onNewFrame(imageData) called without
\* the `if (this.onNewFrame)` test: calling null raises a TypeError and the
\* requestAnimationFrame line after it is never reached.
captureFrame_NoCallbackTest(w, h, cb, cv) ==
    IF w > 0 /\ h > 0
    THEN [canvas |-> <<w, h>>, sent |-> IF cb THEN 1 ELSE 0, raised |-> ~cb, resched |-> cb]
    ELSE [canvas |-> cv, sent |-> 0, raised |-> FALSE, resched |-> TRUE]

\* captureFrame as it would be with requestAnimationFrame(captureFrame) moved
\* inside the branch that delivers a frame: an idle tick ends the loop.
captureFrame_StopsWhenIdle(w, h, cb, cv) ==
    IF w > 0 /\ h > 0
    THEN [canvas |-> <<w, h>>, sent |-> IF cb THEN 1 ELSE 0, raised |-> FALSE, resched |-> cb]
    ELSE [canvas |-> cv, sent |-> 0, raised |-> FALSE, resched |-> FALSE]

\* One invocation of the captureFrame closure.
captureFrame(w, h, cb, cv) ==
    IF w > 0 /\ h > 0
    THEN [canvas |-> <<w, h>>, sent |-> IF cb THEN 1 ELSE 0, raised |-> FALSE, resched |-> TRUE]
    ELSE [canvas |-> cv, sent |-> 0, raised |-> FALSE, resched |-> TRUE]

\* ---------------------------------------------------- LiveVideoManager --
\* stopWebcam / stopCapture as they would be without the line
\* `this.videoElement.srcObject = null`: the element stays bound.
StopBody_KeepBinding(m) ==
    IF stream[m] # 0
    THEN /\ streams' = StopTracks(m)
         /\ stream' = [stream EXCEPT ![m] = 0]
         /\ UNCHANGED <<srcObject, videoWidth, videoHeight>>
    ELSE UNCHANGED StopVars

\* stopWebcam / stopCapture as they would be without the `if (this.stream)`
\* test around the unbinding of the video element.
StopBody_UnbindAlways(m) ==
    /\ streams' = StopTracks(m)
    /\ srcObject' = 0
    /\ videoWidth' = 0
    /\ videoHeight' = 0
    /\ stream' = [stream EXCEPT ![m] = 0]

\* if (this.stream) { stop tracks; videoElement.srcObject = null; this.stream = null }
\* Clearing srcObject runs the media element load algorithm: the element
\* reports videoWidth = videoHeight = 0 until new metadata arrives.
StopBody(m) ==
    IF stream[m] # 0
    THEN /\ streams' = StopTracks(m)
         /\ srcObject' = 0
         /\ videoWidth' = 0
         /\ videoHeight' = 0
         /\ stream' = [stream EXCEPT ![m] = 0]
    ELSE UNCHANGED StopVars

stopWebcam ==
    /\ StopBody(Video)
    /\ MarkImmediate(Video)
    /\ ev' = StopEv(Video)
    /\ UNCHANGED <<ReqVars, LoopVars, callback, Aside, settled>>

startWebcam(deviceId) ==
    /\ Request(Video, "start", deviceId)
    /\ UNCHANGED <<StopVars, LoopVars, callback, Aside, settled, immStopped>>

updateWebcamDevice(deviceId) ==
    /\ ncalls < limit
    /\ StopBody(Video)
    /\ Request(Video, "update", deviceId)
    /\ UNCHANGED <<LoopVars, callback, Aside, settled, immStopped>>

\* Continuation of the await in startWebcam / startCapture when the platform
\* fulfils: this.stream = stream; videoElement.srcObject = stream; play();
\* captureFrames(), whose first captureFrame() runs synchronously.  Assigning
\* srcObject restarts the element's load: it reports 0 x 0 until metadata of
\* the new stream arrives, which is what that first captureFrame() sees.
BindAndSample(c) ==
    LET new == Len(streams) + 1
        r   == captureFrame(0, 0, callback[c.mgr], canvas)
    IN  /\ streams' = Append(streams, NewStream(c))
        /\ stream' = [stream EXCEPT ![c.mgr] = new]
        /\ srcObject' = new
        /\ videoWidth' = 0
        /\ videoHeight' = 0
        /\ canvas' = r.canvas
        /\ loops' = [loops EXCEPT ![c.mgr] = @ + (IF r.resched THEN 1 ELSE 0)]
        /\ delivered' = [delivered EXCEPT ![c.mgr] = @ + r.sent]
        /\ tick' = tick
        /\ pending' = pending \ {c}
        /\ settled' = [call |-> c.id, mgr |-> c.mgr, op |-> c.op,
                       platform |-> NoError, thrown |-> NoError]
        /\ ev' = Ev("fulfil", c.mgr, c.id)
        /\ UNCHANGED <<graphs, ncalls, limit, callback, Aside, immStopped>>

\* A catch block that only logs: the caller sees the call fulfil.
Swallow(error) == NoError

\* catch (error) { console.error(...); throw error; }
Rethrow(error) == error

\* The platform rejects acquisition c with error e: the assignment at the
\* await never happens, the catch block logs and rethrows.
RejectBody(c, e) ==
    /\ pending' = pending \ {c}
    /\ settled' = [call |-> c.id, mgr |-> c.mgr, op |-> c.op,
                   platform |-> e, thrown |-> Rethrow(e)]
    /\ ev' = Ev("reject", c.mgr, c.id)
    /\ UNCHANGED <<StopVars, LoopVars, ncalls, limit, callback, Aside, immStopped>>

startWebcamFulfilled(c) == c.mgr = Video /\ BindAndSample(c)
startWebcamRejected(c, e) == c.mgr = Video /\ RejectBody(c, e)

\* --------------------------------------------------- LiveScreenManager --
stopCapture ==
    /\ StopBody(Screen)
    /\ MarkImmediate(Screen)
    /\ ev' = StopEv(Screen)
    /\ UNCHANGED <<ReqVars, LoopVars, callback, Aside, settled>>

startCapture ==
    /\ Request(Screen, "start", NoDevice)
    /\ UNCHANGED <<StopVars, LoopVars, callback, Aside, settled, immStopped>>

startCaptureFulfilled(c) == c.mgr = Screen /\ BindAndSample(c)
startCaptureRejected(c, e) == c.mgr = Screen /\ RejectBody(c, e)

\* ----------------------------------------------- LiveAudioInputManager --
\* if (this.stream) { stop tracks; this.stream = null }
DisconnectBody ==
    IF stream[Audio] # 0
    THEN /\ streams' = StopTracks(Audio)
         /\ stream' = [stream EXCEPT ![Audio] = 0]
         /\ UNCHANGED <<srcObject, videoWidth, videoHeight>>
    ELSE UNCHANGED StopVars

disconnectMicrophone ==
    /\ DisconnectBody
    /\ MarkImmediate(Audio)
    /\ ev' = StopEv(Audio)
    /\ UNCHANGED <<ReqVars, LoopVars, callback, Aside, settled>>

connectMicrophone(deviceId) ==
    /\ Request(Audio, "start", deviceId)
    /\ UNCHANGED <<StopVars, LoopVars, callback, Aside, settled, immStopped>>

updateMicrophoneDevice(deviceId) ==
    /\ ncalls < limit
    /\ DisconnectBody
    /\ Request(Audio, "update", deviceId)
    /\ UNCHANGED <<LoopVars, callback, Aside, settled, immStopped>>

\* this.stream = stream; processAudioStream(): a new AudioContext, source and
\* script processor are created and wired to the destination.
connectMicrophoneFulfilled(c) ==
    LET new == Len(streams) + 1
    IN  /\ c.mgr = Audio
        /\ streams' = Append(streams, NewStream(c))
        /\ stream' = [stream EXCEPT ![Audio] = new]
        /\ graphs' = Append(graphs, new)
        /\ pending' = pending \ {c}
        /\ settled' = [call |-> c.id, mgr |-> c.mgr, op |-> c.op,
                       platform |-> NoError, thrown |-> NoError]
        /\ ev' = Ev("fulfil", c.mgr, c.id)
        /\ UNCHANGED <<srcObject, videoWidth, videoHeight, canvas, loops, tick, delivered,
                       ncalls, limit, callback, Aside, immStopped>>

connectMicrophoneRejected(c, e) == c.mgr = Audio /\ RejectBody(c, e)

\* onaudioprocess as it would be if the handler passed the buffer on twice.
onaudioprocess_Twice(cb, inputBuffer) ==
    IF cb THEN <<inputBuffer[1], inputBuffer[1]>> ELSE << >>

\* processor.onaudioprocess = (event) => { if (this.onNewAudioRecordingChunk)
\*     this.onNewAudioRecordingChunk(event.inputBuffer.getChannelData(0)); }
\* The calls made to the callback for one event, in order.  inputBuffer is the
\* tuple of the event's channels; channel 0 is its first element.
onaudioprocess(cb, inputBuffer) ==
    IF cb THEN <<inputBuffer[1]>> ELSE << >>

\* The script processor of graph g has filled one buffer and fires
\* audioprocess.  The processor was created with one input channel.  No
\* AudioContext is ever closed, so every graph built so far keeps firing,
\* whether or not the stream it taps still has a live track.
AudioProcess(g) ==
    LET inputBuffer == << [graph |-> g, n |-> nchunks + 1] >>
    IN  /\ nchunks < MaxChunks
        /\ nchunks' = nchunks + 1
        /\ sentAudio' = sentAudio \o onaudioprocess(callback[Audio], inputBuffer)
        /\ heard' = IF callback[Audio] THEN Append(heard, inputBuffer[1]) ELSE heard
        /\ ev' = Ev("chunk", Audio, 0)
        /\ UNCHANGED <<StopVars, ReqVars, LoopVars, callback, settled, immStopped,
                       PageVars, CookieVars>>

\* ------------------------------------------------ platform and callers --
\* The video element learns (or changes) the resolution of the bound stream.
\* The two dimensions are drawn independently, so that each half of the test
\* in captureFrame is exercised on its own.
LoadedMetadata(w, h) ==
    /\ srcObject # 0
    /\ streams[srcObject].live
    /\ <<w, h>> # <<videoWidth, videoHeight>>
    /\ videoWidth' = w
    /\ videoHeight' = h
    /\ ev' = Ev("metadata", "none", 0)
    /\ UNCHANGED <<streams, stream, srcObject, ReqVars, LoopVars, callback, Aside, settled, immStopped>>

\* manager.onNewFrame = f   /   manager.onNewFrame = null
SetCallback(m, registered) ==
    /\ callback[m] # registered
    /\ callback' = [callback EXCEPT ![m] = registered]
    /\ ev' = Ev("callback", m, 0)
    /\ UNCHANGED <<StopVars, ReqVars, LoopVars, settled, immStopped, Aside>>

\* One display refresh: the browser runs every pending requestAnimationFrame
\* callback, i.e. one captureFrame invocation per loop of either manager.
AnimationFrame ==
    LET r == [m \in VideoManagers |->
                 captureFrame(videoWidth, videoHeight, callback[m], canvas)]
        ran == {m \in VideoManagers : loops[m] > 0}
    IN  /\ ran # {}
        /\ tick.n < MaxTicks
        /\ canvas' = IF \E m \in ran : r[m].canvas # canvas
                     THEN <<videoWidth, videoHeight>> ELSE canvas
        /\ loops' = [m \in VideoManagers |-> IF r[m].resched THEN loops[m] ELSE 0]
        /\ delivered' = [m \in VideoManagers |-> delivered[m] + loops[m] * r[m].sent]
        /\ tick' = [n |-> tick.n + 1,
                    skips |-> IF tick.n > 0 /\ (tick.w = 0 \/ tick.h = 0)
                              THEN tick.skips + 1 ELSE 0,
                    w |-> videoWidth, h |-> videoHeight,
                    cb |-> [m \in VideoManagers |-> callback[m]],
                    runs |-> loops,
                    sent |-> [m \in VideoManagers |-> loops[m] * r[m].sent],
                    dry |-> [m \in VideoManagers |->
                                IF loops[m] > 0 /\ ~callback[m] THEN tick.dry[m] + 1 ELSE 0],
                    raised |-> \E m \in ran : r[m].raised]
        /\ ev' = Ev("frame", "none", 0)
        /\ UNCHANGED <<StopVars, ReqVars, graphs, callback, Aside, settled, immStopped>>

\* ------------------------------------------------------ specifications --
Settle ==
    \E c \in pending :
        \/ startWebcamFulfilled(c)
        \/ startCaptureFulfilled(c)
        \/ connectMicrophoneFulfilled(c)
        \/ \E e \in Errors :
              \/ startWebcamRejected(c, e)
              \/ startCaptureRejected(c, e)
              \/ connectMicrophoneRejected(c, e)

\* The three managers driven through their public methods in any order.
Next ==
    \/ \E d \in Devices : startWebcam(d)
    \/ stopWebcam
    \/ \E d \in DeviceIds : updateWebcamDevice(d)
    \/ startCapture
    \/ stopCapture
    \/ \E d \in Devices : connectMicrophone(d)
    \/ disconnectMicrophone
    \/ \E d \in DeviceIds : updateMicrophoneDevice(d)
    \/ Settle

Spec == Init /\ [][Next]_vars


\* One LiveVideoManager driven through its three methods in any order.
InitVideo ==
    /\ InitManagers
    /\ callback = [m \in Managers |-> FALSE]
    /\ limit = MaxVideoCalls

SettleVideo ==
    \E c \in pending :
        \/ startWebcamFulfilled(c)
        \/ \E e \in Errors : startWebcamRejected(c, e)

NextVideo ==
    \/ \E d \in Devices : startWebcam(d)
    \/ stopWebcam
    \/ \E d \in DeviceIds : updateWebcamDevice(d)
    \/ SettleVideo

SpecVideo == InitVideo /\ [][NextVideo]_vars

\* ---------------------------------------------------------- page script --
\* function startCameraCapture() { liveScreenManager.stopCapture(); liveVideoManager.startWebcam(); }
startCameraCapture ==
    /\ ncalls < limit
    /\ StopBody(Screen)
    /\ MarkImmediate(Screen)
    /\ Request(Video, "start", NoDevice)
    /\ UNCHANGED <<LoopVars, callback, Aside, settled>>

\* function startScreenCapture() { liveVideoManager.stopWebcam(); liveScreenManager.startCapture(); }
startScreenCapture ==
    /\ ncalls < limit
    /\ StopBody(Video)
    /\ MarkImmediate(Video)
    /\ Request(Screen, "start", NoDevice)
    /\ UNCHANGED <<LoopVars, callback, Aside, settled>>

cameraBtnClick == startCameraCapture

screenShareBtnClick == startScreenCapture

\* liveVideoManager.updateWebcamDevice(cameraSelect.value)
newCameraSelected(value) == updateWebcamDevice(value)

\* State once the page script has run: the managers are constructed and the
\* three callbacks are assigned.
InitApp ==
    /\ InitManagers
    /\ callback = [m \in Managers |-> TRUE]
    /\ limit = MaxVideoCalls

SettleApp ==
    \E c \in pending :
        \/ startWebcamFulfilled(c)
        \/ startCaptureFulfilled(c)
        \/ \E e \in Errors :
              \/ startWebcamRejected(c, e)
              \/ startCaptureRejected(c, e)

NextApp ==
    \/ cameraBtnClick
    \/ screenShareBtnClick
    \/ \E d \in DeviceIds : newCameraSelected(d)
    \/ SettleApp
    \/ \E w \in Dim, h \in Dim : LoadedMetadata(w, h)
    \/ AnimationFrame

SpecApp == InitApp /\ [][NextApp]_vars

\* ------------------------------------------------------- sampling loops --
InitSampler ==
    /\ InitManagers
    /\ callback = [m \in Managers |-> FALSE]
    /\ limit = MaxSamplerCalls

NextSampler ==
    \/ startWebcam(NoDevice)
    \/ stopWebcam
    \/ \E c \in pending : startWebcamFulfilled(c)
    \/ \E b \in BOOLEAN : SetCallback(Video, b)
    \/ \E w \in Dim, h \in Dim : LoadedMetadata(w, h)
    \/ AnimationFrame

SpecSampler == InitSampler /\ [][NextSampler]_vars


\* The camera's sampling loop under every operation that could be thought to
\* end it: start, stop, device switch and clearing the callback the page
\* registered, with the element reporting the dimensions of a real stream.
InitLoop ==
    /\ InitManagers
    /\ callback = [m \in Managers |-> TRUE]
    /\ limit = MaxLoopCalls

NextLoop ==
    \/ startWebcam(NoDevice)
    \/ stopWebcam
    \/ updateWebcamDevice("idB")
    \/ \E c \in pending : startWebcamFulfilled(c)
    \/ SetCallback(Video, FALSE)
    \/ LoadedMetadata(640, 640)
    \/ AnimationFrame

SpecLoop == InitLoop /\ [][NextLoop]_vars


\* --------------------------------------------------- microphone alone --
\* One LiveAudioInputManager driven through its three methods, with its
\* callback set and cleared and its audio graphs firing.
InitAudio ==
    /\ InitManagers
    /\ callback = [m \in Managers |-> FALSE]
    /\ limit = MaxAudioCalls

NextAudio ==
    \/ \E d \in Devices : connectMicrophone(d)
    \/ disconnectMicrophone
    \/ \E d \in DeviceIds : updateMicrophoneDevice(d)
    \/ \E c \in pending : connectMicrophoneFulfilled(c)
    \/ \E c \in pending, e \in Errors : connectMicrophoneRejected(c, e)
    \/ \E b \in BOOLEAN : SetCallback(Audio, b)
    \/ \E g \in DOMAIN graphs : AudioProcess(g)

SpecAudio == InitAudio /\ [][NextAudio]_vars


\* ------------------------------------------- page script: audio handlers --
\* function connectBtnClick(): setAppStatus("connecting"); ...;
\* geminiLiveApi.connect(accessTokenInput.value)
connectBtnClick ==
    /\ appStatus' = "connecting"
    /\ session' = "opening"
    /\ ev' = Ev("connect", "none", 0)
    /\ UNCHANGED <<StopVars, ReqVars, LoopVars, callback, settled, immStopped,
                   dialogMessage, micBtnHidden, micOffBtnHidden, released,
                   ChunkVars, CookieVars>>

\* function startAudioInput() { liveAudioInputManager.connectMicrophone(); }
\* The promise is neither awaited nor given a catch.
startAudioInput ==
    /\ Request(Audio, "start", NoDevice)
    /\ released' = -1
    /\ UNCHANGED <<StopVars, LoopVars, callback, settled, immStopped>>

\* function stopAudioInput() { liveAudioInputManager.disconnectMicrophone(); }
stopAudioInput ==
    /\ DisconnectBody
    /\ MarkImmediate(Audio)
    /\ ev' = StopEv(Audio)
    /\ UNCHANGED <<ReqVars, LoopVars, callback, settled>>

\* geminiLiveApi.onConnectionStarted = () => { setAppStatus("connected"); startAudioInput(); }
\* called by the API once the connection that connectBtnClick asked for is up.
onConnectionStarted ==
    /\ session = "opening"
    /\ session' = "open"
    /\ appStatus' = "connected"
    /\ startAudioInput
    /\ UNCHANGED <<dialogMessage, micBtnHidden, micOffBtnHidden, ChunkVars, CookieVars>>

\* function micBtnClick(): stopAudioInput(); micBtn.hidden = true; micOffBtn.hidden = false
micBtnClick ==
    /\ ~micBtnHidden
    /\ stopAudioInput
    /\ micBtnHidden' = TRUE
    /\ micOffBtnHidden' = FALSE
    /\ UNCHANGED <<appStatus, dialogMessage, session, released, ChunkVars, CookieVars>>

\* function micOffBtnClick(): startAudioInput(); micBtn.hidden = false; micOffBtn.hidden = true
micOffBtnClick ==
    /\ ~micOffBtnHidden
    /\ startAudioInput
    /\ micBtnHidden' = FALSE
    /\ micOffBtnHidden' = TRUE
    /\ UNCHANGED <<appStatus, dialogMessage, session, ChunkVars, CookieVars>>

\* function newMicSelected(): liveAudioInputManager.updateMicrophoneDevice(micSelect.value)
newMicSelected(value) ==
    /\ ncalls < limit
    /\ DisconnectBody
    /\ Request(Audio, "update", value)
    /\ released' = -1
    /\ UNCHANGED <<LoopVars, callback, settled, immStopped,
                   appStatus, dialogMessage, micBtnHidden, micOffBtnHidden, session,
                   ChunkVars, CookieVars>>

\* function disconnectBtnClick(): setAppStatus("disconnected");
\* geminiLiveApi.disconnect(); stopAudioInput()
disconnectBtnClick ==
    /\ appStatus' = "disconnected"
    /\ session' = "closed"
    /\ stopAudioInput
    /\ released' = Len(sentAudio)
    /\ UNCHANGED <<dialogMessage, micBtnHidden, micOffBtnHidden, ChunkVars, CookieVars>>

\* geminiLiveApi.onErrorMessage = (message) => { showDialogWithMessage(message);
\* setAppStatus("disconnected"); }  called by the API on an error of the
\* connection; whether the connection survives the error is the API's affair.
onErrorMessage(message) ==
    /\ session # "closed"
    /\ dialogMessage' = message
    /\ appStatus' = "disconnected"
    /\ session' \in {session, "closed"}
    /\ ev' = Ev("apierror", "none", 0)
    /\ UNCHANGED <<StopVars, ReqVars, LoopVars, callback, settled, immStopped,
                   micBtnHidden, micOffBtnHidden, released, ChunkVars, CookieVars>>

\* State once the page script has run.  Which of the two microphone buttons
\* the markup shows at first is not decided by the script.
InitMic ==
    /\ InitMedia
    /\ callback = [m \in Managers |-> TRUE]
    /\ limit = MaxMicCalls
    /\ appStatus = "disconnected"
    /\ dialogMessage = NoError
    /\ micBtnHidden \in BOOLEAN
    /\ micOffBtnHidden \in BOOLEAN
    /\ session = "closed"
    /\ released = -1
    /\ InitJar
    /\ scriptHttpOnly = FALSE

NextMic ==
    \/ connectBtnClick
    \/ onConnectionStarted
    \/ micBtnClick
    \/ micOffBtnClick
    \/ \E d \in DeviceIds : newMicSelected(d)
    \/ disconnectBtnClick
    \/ onErrorMessage("api error")
    \/ \E c \in pending : connectMicrophoneFulfilled(c)
    \/ \E c \in pending, e \in Errors : connectMicrophoneRejected(c, e)
    \/ \E g \in DOMAIN graphs : AudioProcess(g)

SpecMic == InitMic /\ [][NextMic]_vars


\* ------------------------------------------------------ cookieJar.js --
\* encodeURIComponent on one character
EncodeChar(ch) ==
    IF ch = " " THEN <<"%", "2", "0">>
    ELSE IF ch = ";" THEN <<"%", "3", "B">>
    ELSE IF ch = "%" THEN <<"%", "2", "5">>
    ELSE <<ch>>

RECURSIVE encodeURIComponent(_)
encodeURIComponent(s) ==
    IF s = << >> THEN << >> ELSE EncodeChar(Head(s)) \o encodeURIComponent(Tail(s))

\* The character an escape sequence %xy stands for; Null when xy is no escape.
Unescape(x, y) ==
    IF <<x, y>> = <<"2", "0">> THEN <<" ">>
    ELSE IF <<x, y>> = <<"3", "B">> THEN <<";">>
    ELSE IF <<x, y>> = <<"2", "5">> THEN <<"%">>
    ELSE Null

\* decodeURIComponent: raises URIError on a % that starts no escape sequence.
RECURSIVE decodeURIComponent(_)
decodeURIComponent(s) ==
    IF s = << >> THEN << >>
    ELSE IF Head(s) # "%"
         THEN LET rest == decodeURIComponent(Tail(s))
              IN  IF rest = URIError THEN URIError ELSE <<Head(s)>> \o rest
    ELSE IF Len(s) < 3 \/ Unescape(s[2], s[3]) = Null THEN URIError
    ELSE LET rest == decodeURIComponent(SubSeq(s, 4, Len(s)))
         IN  IF rest = URIError THEN URIError ELSE Unescape(s[2], s[3]) \o rest

\* The longest prefix of s without a semicolon: what the regular expression
\* class [^;]* matches, and where the platform ends a cookie's value.
RECURSIVE UpToSemicolon(_)
UpToSemicolon(s) ==
    IF s = << >> \/ Head(s) = ";" THEN << >> ELSE <<Head(s)>> \o UpToSemicolon(Tail(s))

\* document.cookie = `${name}=${value};expires=...;path=/;Secure;HttpOnly`
\* as the platform handles it.  A cookie that carries HttpOnly and comes from a
\* script is dropped by a conforming platform (RFC 6265, 5.3 step 10);
\* httpOnly tells whether this platform stores it all the same.  An expiry
\* date in the past removes the cookie.
AssignCookie(store, httpOnly, name, value, expires, attributes) ==
    IF "HttpOnly" \in attributes /\ ~httpOnly THEN store
    ELSE IF expires = "past" THEN [store EXCEPT ![name] = Null]
    ELSE [store EXCEPT ![name] = UpToSemicolon(value)]

\* setCookie(name, value, days = 365): if (!name || !value) return;
setCookie(store, httpOnly, name, value) ==
    IF name = << >> \/ value = << >> THEN store
    ELSE AssignCookie(store, httpOnly, name, encodeURIComponent(value), "future",
                      {"path", "Secure", "HttpOnly"})

\* getCookie(name): if (!name) return null; document.cookie.match(`(^|;)\s*${name}\s*=\s*([^;]+)`);
\* the value group needs at least one character.
getCookie(store, name) ==
    IF name = << >> THEN Null
    ELSE IF name \notin DOMAIN store \/ store[name] = Null
            \/ UpToSemicolon(store[name]) = << >>
    THEN Null
    ELSE decodeURIComponent(UpToSemicolon(store[name]))

\* deleteCookie(name): if (!name) return; the cookie is assigned an empty value and an expiry
\* date in 1970, with the same attributes.
deleteCookie(store, httpOnly, name) ==
    IF name = << >> THEN store
    ELSE AssignCookie(store, httpOnly, name, << >>, "past", {"path", "Secure", "HttpOnly"})

\* A page load: the form field is as the markup has it, and CookieJar.init
\* puts the saved value in it, if there is one, and attaches the listener.
CookieJarInit ==
    LET savedValue == getCookie(jar, CookieName)
    IN  /\ field' = IF savedValue # Null /\ savedValue # << >> THEN savedValue ELSE << >>
        /\ listening' = TRUE
        /\ ev' = Ev("cookieinit", "none", 0)
        /\ UNCHANGED <<StopVars, ReqVars, LoopVars, callback, settled, immStopped,
                       PageVars, ChunkVars, jar, entered, scriptHttpOnly>>

\* The user edits the field and the input listener saves element.value.
InputEvent(v) ==
    /\ listening
    /\ v # field
    /\ field' = v
    /\ entered' = v
    /\ jar' = setCookie(jar, scriptHttpOnly, CookieName, v)
    /\ ev' = Ev("input", "none", 0)
    /\ UNCHANGED <<StopVars, ReqVars, LoopVars, callback, settled, immStopped,
                   PageVars, ChunkVars, listening, scriptHttpOnly>>

\* CookieJar.deleteCookie(name), called from outside the class
DeleteCookie ==
    /\ jar' = deleteCookie(jar, scriptHttpOnly, CookieName)
    /\ entered' = Null
    /\ ev' = Ev("delete", "none", 0)
    /\ UNCHANGED <<StopVars, ReqVars, LoopVars, callback, settled, immStopped,
                   PageVars, ChunkVars, field, listening, scriptHttpOnly>>

\* The document before the page's first load, on either kind of platform.
InitCookie ==
    /\ InitMedia
    /\ InitPage
    /\ InitJar
    /\ callback = [m \in Managers |-> FALSE]
    /\ limit = 0
    /\ scriptHttpOnly \in BOOLEAN

NextCookie ==
    \/ CookieJarInit
    \/ \E v \in Values : InputEvent(v)
    \/ DeleteCookie

SpecCookie == InitCookie /\ [][NextCookie]_vars


\* ================================================================ claims ==
Camera == LiveOf(Video)
Shared == LiveOf(Screen)

\* C1: when updateWebcamDevice(idB) is called while a stream acquired by
\* startWebcam(idA) is live, that stream is fully stopped at the instant (and
\* for as long as) the stream acquired for idB is live: the two streams are
\* never live together.
C1_SwitchNeverTwoLive ==
    \A s \in StreamIds :
        (streams[s].mgr = Video /\ streams[s].op = "update" /\ streams[s].live)
        => \A p \in streams[s].liveAt :
               (streams[p].mgr = Video /\ streams[p].op = "start") => ~streams[p].live

\* C2: in every reachable state at most one stream acquired by the
\* LiveVideoManager has live tracks.
C2_AtMostOneLiveStream == Cardinality(Camera) <= 1

\* C3: startCameraCapture has stopped the screen manager's stream when it
\* requests the camera, startScreenCapture has stopped the camera manager's
\* stream when it requests the display, and no sampling tick sees a camera (or
\* screen) stream live together with a stream of the other kind that was
\* active when it was enabled.
C3_EnablingOneStopsTheOther ==
    /\ (ev.op = "start" /\ ev.mgr = Video) => stream[Screen] = 0
    /\ (ev.op = "start" /\ ev.mgr = Screen) => stream[Video] = 0
    /\ ev.op = "frame" =>
          \A s \in LiveStreams :
              \A p \in streams[s].liveAt :
                  (streams[s].op = "start" /\ streams[p].mgr # streams[s].mgr)
                  => ~streams[p].live

\* C4: over every interleaving of cameraBtnClick, screenShareBtnClick,
\* newCameraSelected and the settling of their acquisitions, the camera stream
\* and the screen stream are never both live, and the video element is never
\* bound to one manager's stream while a stream of the other manager is live.
C4_OneVideoSourceAtATime ==
    /\ ~(Camera # {} /\ Shared # {})
    /\ srcObject # 0 =>
          \A p \in Camera \cup Shared : streams[p].mgr = streams[srcObject].mgr

\* C5: a startWebcam (startCapture) followed immediately by stopWebcam
\* (stopCapture) leaves nothing behind: the stream that start acquires, once
\* the acquisition has settled, has no live track, is not held in the
\* manager's stream field and is not bound to the video element.
C5_StartThenStopLeavesNothing ==
    \A s \in StreamIds :
        (streams[s].mgr \in VideoManagers /\ streams[s].call \in immStopped)
        => /\ ~streams[s].live
           /\ stream[streams[s].mgr] # s
           /\ srcObject # s


\* What a manager has bound or started: everything but the bookkeeping of
\* requests.
Bound == <<streams, stream, srcObject, videoWidth, videoHeight, canvas, loops,
           graphs, delivered, callback>>

\* C6: when the platform rejects the acquisition of startWebcam, startCapture
\* or connectMicrophone, the call rejects with that same error and is not
\* retried, and neither the call nor its failure binds anything: stream
\* fields, srcObject, tracks, sampling loops and audio graphs are as before.
C6_FailedAcquisitionLeavesNothing ==
    [][ /\ (pending' # pending /\ ev'.op = "reject") =>
              /\ settled'.platform \in Errors
              /\ settled'.thrown = settled'.platform
              /\ \E c \in pending : c.id = settled'.call /\ pending' = pending \ {c}
              /\ ncalls' = ncalls
              /\ Bound' = Bound
        /\ (ncalls' # ncalls /\ ev'.op = "start") =>
              /\ \E c \in pending' : c.id = ev'.call /\ pending' = pending \cup {c}
              /\ Bound' = Bound
      ]_vars

\* C6 witness: a second acquisition was rejected with NotFoundError while the
\* stream of an earlier call is held and live, and the call threw that error.
C6_Witness ==
    /\ ev.op = "reject"
    /\ settled.op = "start"
    /\ settled.platform = "NotFoundError"
    /\ settled.thrown = "NotFoundError"
    /\ stream[settled.mgr] # 0
    /\ streams[stream[settled.mgr]].live

\* C7: when the acquisition of updateWebcamDevice / updateMicrophoneDevice
\* fails, the manager ends stopped: no stream acquired by a call made before
\* the switch is live, held in the stream field or bound to the video element.
C7_FailedSwitchEndsStopped ==
    (ev.op = "reject" /\ settled.op = "update") =>
        \A s \in StreamIds :
            (streams[s].mgr = settled.mgr /\ streams[s].call < settled.call)
            => /\ ~streams[s].live
               /\ stream[settled.mgr] # s
               /\ srcObject # s

\* C8: stopWebcam, stopCapture and disconnectMicrophone never raise; when a
\* stream is held they stop its tracks and clear the stream field (the video
\* variants also clear srcObject) and touch nothing else; when none is held,
\* in particular right after another stop, they change nothing.
C8_StopIdempotent ==
    [][ \A m \in Managers :
          (ev'.op = "stop" /\ ev'.mgr = m /\ ev' # ev) =>
              /\ ev'.threw = NoError
              /\ (ev.op = "stop" /\ ev.mgr = m) => stream[m] = 0
              /\ stream[m] # 0 =>
                    /\ ~streams'[stream[m]].live
                    /\ \A s \in StreamIds \ {stream[m]} : streams'[s] = streams[s]
                    /\ stream' = [stream EXCEPT ![m] = 0]
                    /\ m \in VideoManagers => srcObject' = 0
                    /\ m = Audio => srcObject' = srcObject
                    /\ <<canvas, loops, graphs, delivered, callback, pending, ncalls>>'
                         = <<canvas, loops, graphs, delivered, callback, pending, ncalls>>
              /\ stream[m] = 0 =>
                    /\ Bound' = Bound
                    /\ <<pending, ncalls, settled, tick>>' = <<pending, ncalls, settled, tick>>
      ]_vars

\* C8 witness: a stop that directly follows a stop of the same manager, the
\* first of which stopped the stream the manager held.
C8_Witness ==
    /\ ev.op = "stop"
    /\ ev.again
    /\ stream[ev.mgr] = 0
    /\ \E s \in StreamIds : streams[s].mgr = ev.mgr /\ ~streams[s].live

Ready(t) == t.w > 0 /\ t.h > 0

\* C9: a tick on which videoWidth or videoHeight is zero delivers no frame and
\* every loop that ran is scheduled again; when all ticks so far were skipped
\* nothing has been delivered, and on the first ready tick after them (the
\* third, for [not-ready, not-ready, ready]) the one loop delivers exactly one
\* frame.
C9_NoFrameWhileZeroDimension ==
    /\ (tick.n > 0 /\ ~Ready(tick)) => \A m \in VideoManagers : tick.sent[m] = 0
    /\ ev.op = "frame" => loops = tick.runs
    /\ (tick.n > 0 /\ ~Ready(tick) /\ tick.skips = tick.n - 1)
          => \A m \in VideoManagers : delivered[m] = 0
    /\ \A m \in VideoManagers :
          (tick.n > 0 /\ Ready(tick) /\ tick.skips = tick.n - 1
             /\ tick.cb[m] /\ tick.runs[m] = 1)
          => (tick.sent[m] = 1 /\ delivered[m] = 1)

\* C9 witness: three ticks were driven, the first two with a zero dimension,
\* the third ready, and exactly one frame has been delivered, on the third.
C9_Witness ==
    /\ ev.op = "frame"
    /\ tick.n = 3
    /\ tick.skips = 2
    /\ Ready(tick)
    /\ tick.sent[Video] = 1
    /\ delivered[Video] = 1

\* C10: a tick that runs a loop whose onNewFrame is null delivers nothing and
\* raises nothing; no tick ever delivers more than the current frame of each
\* loop (nothing dropped is delivered later); and every loop that ran is
\* scheduled again.
C10_ClearedCallbackDropsFrames ==
    /\ \A m \in VideoManagers :
          /\ (tick.n > 0 /\ ~tick.cb[m]) => tick.sent[m] = 0
          /\ tick.sent[m] <= tick.runs[m]
          /\ tick.dry[m] > 0 => (tick.sent[m] = 0 /\ loops[m] >= tick.runs[m])
    /\ ~tick.raised
    /\ ev.op = "frame" => \A m \in VideoManagers : loops[m] >= tick.runs[m]

\* C10 witness: a frame was delivered, the callback was then cleared, and two
\* ticks in a row ran the loop on a ready source without delivering anything.
C10_Witness ==
    /\ ev.op = "frame"
    /\ delivered[Video] = 1
    /\ tick.dry[Video] = 2
    /\ Ready(tick)
    /\ tick.sent[Video] = 0
    /\ loops[Video] = 1


\* C13: on one display-refresh tick a video manager invokes its onNewFrame at
\* most once, whatever starts, stops and switches came before the tick.
C13_OneDeliveryPerTick ==
    \A m \in VideoManagers : tick.sent[m] <= 1

\* C14: a manager whose stream has been torn down (a stop stopped its stream
\* and its stream field is null) delivers no frame on a tick, whatever the
\* other manager has bound to the shared video element in the meantime.
C14_NoFramesAfterTeardown ==
    ev.op = "frame" =>
        \A m \in VideoManagers :
            (/\ stream[m] = 0
             /\ \E s \in StreamIds : streams[s].mgr = m /\ ~streams[s].live)
            => tick.sent[m] = 0

\* C18: every stream with a live track is the stream held in the stream field
\* of the manager that acquired it, so a stop made while the manager has no
\* acquisition pending leaves the manager without a live track.
C18_NoOrphanedStream ==
    /\ \A s \in LiveStreams : stream[streams[s].mgr] = s
    /\ (ev.op = "stop" /\ ~\E c \in pending : c.mgr = ev.mgr) => LiveOf(ev.mgr) = {}

\* C20: whenever the shared video element is bound (srcObject not null) the
\* bound stream has live tracks and is the stream held in the stream field of
\* the video manager that acquired it; the element is never left bound to a
\* stopped stream.
C20_BoundStreamIsHeldAndLive ==
    srcObject # 0 =>
        /\ streams[srcObject].live
        /\ streams[srcObject].mgr \in VideoManagers
        /\ stream[streams[srcObject].mgr] = srcObject

\* C20 witness: the element has just been bound to the stream the screen
\* manager holds, after a camera stream was acquired and stopped.
C20_Witness ==
    /\ srcObject # 0
    /\ stream[Screen] = srcObject
    /\ ev.op = "fulfil"
    /\ \E s \in StreamIds : streams[s].mgr = Video /\ ~streams[s].live

\* C15: the sampling loop has no stop primitive. Every loop a successful start
\* has begun is still scheduled after every step: a tick runs each of them and
\* schedules each again whether or not it produced a frame or found a callback,
\* and no stop, switch or change of the callback ever removes one.
C15_LoopNeverCancelled ==
    [][ \A m \in VideoManagers :
          /\ loops'[m] >= loops[m]
          /\ loops'[m] = Cardinality({s \in DOMAIN streams' : streams'[s].mgr = m})
          /\ ev'.op = "frame" => (tick'.runs[m] = loops[m] /\ loops'[m] = loops[m])
      ]_vars

\* C15 witness: after the camera was stopped and its callback cleared, a
\* second tick in a row ran the loop without a frame, and the loop is still
\* scheduled.
C15_Witness ==
    /\ ev.op = "frame"
    /\ tick.n >= 2
    /\ stream[Video] = 0
    /\ ~callback[Video]
    /\ \E s \in StreamIds : streams[s].mgr = Video /\ ~streams[s].live
    /\ tick.runs[Video] = 1
    /\ tick.sent[Video] = 0
    /\ loops[Video] = 1

\* C11: the buffers passed to onNewAudioRecordingChunk are exactly the
\* channel-0 buffers of the audioprocess events fired while a callback was
\* registered: one call per event, in the order the events fired, each with
\* that event's buffer itself, none twice and none of an event that fired
\* while no callback was registered.
C11_ChunksInCaptureOrder ==
    /\ sentAudio = heard
    /\ \A i, j \in DOMAIN sentAudio : i < j => sentAudio[i].n < sentAudio[j].n
    /\ Len(sentAudio) <= nchunks

\* C11 witness: three events [c1, c2, c3] of one graph fired with a callback
\* registered and the callback was called three times, with c1, c2, c3.
C11_Witness ==
    /\ ev.op = "chunk"
    /\ nchunks = 3
    /\ Len(sentAudio) = 3
    /\ \A i \in 1..3 : sentAudio[i] = [graph |-> 1, n |-> i]

Microphone == LiveOf(Audio)

\* C16: over every interleaving of the page's audio events and the settling
\* of the acquisitions they start, at most one stream acquired by the
\* LiveAudioInputManager has live tracks; in particular no stream acquired by
\* updateMicrophoneDevice is live together with a stream that was live when
\* the switch was made.
C16_AtMostOneLiveMicrophone ==
    /\ Cardinality(Microphone) <= 1
    /\ \A s \in Microphone :
          streams[s].op = "update" => \A p \in streams[s].liveAt : ~streams[p].live

\* C17: when an acquisition of the microphone that the page started on
\* connection start or on re-enabling is rejected, the page has put the error
\* in its dialog and the status indicator no longer reads "connected".
C17_FailureIsPresented ==
    (ev.op = "reject" /\ settled.op = "start") =>
        /\ dialogMessage = settled.thrown
        /\ appStatus # "connected"

\* C19: after disconnectBtnClick, and until a handler asks for the microphone
\* again, once no acquisition of the microphone is pending no microphone
\* stream is live and no buffer has been passed to sendAudioMessage since
\* the click.
C19_DisconnectReleasesMicrophone ==
    (released >= 0 /\ ~\E c \in pending : c.mgr = Audio) =>
        /\ Microphone = {}
        /\ Len(sentAudio) = released

\* C12: after an input event on a field that CookieJar.init has initialised,
\* getCookie of the field's cookie returns the field's current value, so the
\* next init restores the value entered last; and after deleteCookie getCookie
\* returns null.
C12_FieldIsSavedAndRestored ==
    /\ ev.op = "input" => getCookie(jar, CookieName) = field
    /\ (ev.op = "cookieinit" /\ entered # Null) => field = entered
    /\ ev.op = "delete" => getCookie(jar, CookieName) = Null

\* C21: the LiveAudioInputManager has at most one audio graph at any time,
\* however often the microphone was disconnected, reconnected or switched, and
\* a chunk handed to onNewAudioRecordingChunk never comes from a graph whose
\* stream has been disconnected.
C21_OneAudioGraph ==
    /\ Len(graphs) <= 1
    /\ (ev.op = "chunk" /\ callback[Audio] /\ sentAudio # << >>) =>
          streams[graphs[sentAudio[Len(sentAudio)].graph]].live

=============================================================================
